---- MODULE Spec2Model ----
(***************************************************************************)
(* Model of mini_4_view: the tracing decorators of mini_4_view/logs.py and *)
(* the traced view of account/views.py.                                    *)
(*                                                                         *)
(* Printed text is a sequence of string tokens; one space character is one *)
(* " " token, so the indentation of a line can be counted.  Standard       *)
(* output retains nothing: each print is one step, the order of the steps  *)
(* is the order of the lines, and the events of a call (hist) or of a      *)
(* request (trace) record what that call or request wrote.                 *)
(***************************************************************************)
EXTENDS Integers, Sequences, FiniteSets, Bags, TLC

VARIABLES
    funcs,      \* function objects under decoration: id -> [name, attrs]
    decor,      \* ghost: the annotators applied to each function object, in order
    wrapped,    \* ids of the function objects start_end_log has wrapped
    pc,         \* position of the running wrapped call inside start_end_log.inner
    cur,        \* the running (or last) wrapped call: id, self, args, kwargs, beh
    hist,       \* events of the running (or last) wrapped call, in order
    result,     \* the local `result` of inner
    outcome,    \* what the last wrapped call gave its caller
    prev,       \* ghost: summary of the wrapped call before the last one
    users,      \* ids of the stored User records
    threads     \* bag of the request threads: [req, stack, trace, ncalls], where
                \* stack is the thread's traced calls, innermost last, and (ghost)
                \* trace the thread's events in order (the lines it wrote to
                \* standard output among them), ncalls the traced calls it started

decvars == <<funcs, decor, wrapped, pc, cur, hist, result, outcome, prev>>
viewvars == <<users, threads>>
vars == <<funcs, decor, wrapped, pc, cur, hist, result, outcome, prev,
          users, threads>>

----------------------------------------------------------------------------
(* Bounds *)

MaxLevel == 2
MaxKey == 1
NumWorkers == 2

Levels == 0..MaxLevel
Messages == {"LMM"}
FuncIds == {"f", "g"}
Receivers == {"obj"}
ArgTuples == {<<>>, <<"a1", "a2">>}
KwargDicts == {<<>>, << <<"'k'", "v">> >>}
Behaviours == {[kind |-> "return", val |-> "r"], [kind |-> "raise", val |-> "Http404"]}

----------------------------------------------------------------------------
(* Python built-ins used by logs.py *)

\* str * int: n copies of unit, the empty string when n <= 0
RECURSIVE StrTimes(_, _)
StrTimes(unit, n) == IF n <= 0 THEN <<>> ELSE unit \o StrTimes(unit, n - 1)

\* the elements of a tuple or dict display, separated by ", "
RECURSIVE JoinComma(_)
JoinComma(parts) ==
    IF Len(parts) = 0 THEN <<>>
    ELSE IF Len(parts) = 1 THEN parts[1]
    ELSE parts[1] \o <<", ">> \o JoinComma(Tail(parts))

\* str(tuple): "()", "(a,)", "(a, b)"
repr_tuple(args) ==
    IF Len(args) = 1 THEN <<"(", args[1], ",)">>
    ELSE <<"(">> \o JoinComma([i \in 1..Len(args) |-> <<args[i]>>]) \o <<")">>

\* str(dict): "{}", "{'k': v}"; a dict keeps its insertion order
repr_dict(kwargs) ==
    <<"{">> \o JoinComma([i \in 1..Len(kwargs) |-> <<kwargs[i][1], ": ", kwargs[i][2]>>])
           \o <<"}">>

\* getattr(func, attr, default)
getattr(func, attr, default) ==
    IF attr \in DOMAIN func.attrs THEN func.attrs[attr] ELSE default

\* func.attr = value
setattr(func, attr, value) ==
    [func EXCEPT !.attrs = [a \in (DOMAIN func.attrs) \cup {attr} |->
                               IF a = attr THEN value ELSE func.attrs[a]]]

\* a function object fresh from its def statement
Def(name) == [name |-> name, attrs |-> <<>>]

----------------------------------------------------------------------------
(* logs.py *)

message_log_clobber(message, func) ==
    [func EXCEPT !.attrs = [a \in {"log_message"} |-> message]]

\* message_log(message)(func)
message_log(message, func) == setattr(func, "log_message", message)

\* level_log(level)(func)
level_log(level, func) == setattr(func, "log_level", level)

log_level_spaces_one(func) == StrTimes(<<" ">>, getattr(func, "log_level", 0))

\* inner, lines 6-7
log_level_spaces(func) == StrTimes(<<" ", " ">>, getattr(func, "log_level", 0))

start_text_swapped(func, args, kwargs) ==
    <<"\n">> \o log_level_spaces(func)
        \o <<"+++[", func.name, " <- ">> \o repr_dict(kwargs) \o <<" - ">>
        \o repr_tuple(args) \o <<"]", "\n">>

\* inner, line 8: the text print() writes, its closing newline included
start_text(func, args, kwargs) ==
    <<"\n">> \o log_level_spaces(func)
        \o <<"+++[", func.name, " <- ">> \o repr_tuple(args) \o <<" - ">>
        \o repr_dict(kwargs) \o <<"]", "\n">>

\* inner, line 10: the text print() writes, its closing newline included
end_text(func, res) ==
    log_level_spaces(func) \o <<"---[", func.name, " -> ", res, "]", "\n", "\n">>

\* an event of a wrapped call: a print, or the wrapped callable being entered or left
Ev(ev, text, self, args, kwargs, val) ==
    [ev |-> ev, text |-> text, self |-> self, args |-> args, kwargs |-> kwargs, val |-> val,
     cid |-> 0]

\* ghost: the event marked with the traced call it belongs to
Tag(e, cid) == [e EXCEPT !.cid = cid]

PrintEv(text) == Ev("print", text, "", <<>>, <<>>, "")

call_event_no_kwargs(self, args, kwargs) == Ev("call", <<>>, self, args, <<>>, "")

\* inner, line 9: func(self, *args, **kwargs) is entered
call_event(self, args, kwargs) == Ev("call", <<>>, self, args, kwargs, "")

raise_events_finally(func, exc) ==
    <<Ev("raise", <<>>, "", <<>>, <<>>, exc), PrintEv(end_text(func, "None"))>>

\* inner, lines 9-11 when func raises: nothing catches, lines 10-11 are skipped
raise_events(func, exc) == <<Ev("raise", <<>>, "", <<>>, <<>>, exc)>>

inner_return_none(res) == "None"

\* inner, line 11
inner_return(res) == res

----------------------------------------------------------------------------
(* Decorating and calling a callable *)

Annot(kind, level, message) == [kind |-> kind, level |-> level, message |-> message]
LevelAnnots == {Annot("level_log", n, "") : n \in Levels}
MessageAnnots == {Annot("message_log", 0, s) : s \in Messages}

\* decorator stacks under start_end_log, innermost first, each annotator at most once
AnnotStacks ==
    {<<>>} \cup {<<a>> : a \in LevelAnnots \cup MessageAnnots}
           \cup {<<a, b>> : a \in LevelAnnots, b \in MessageAnnots}
           \cup {<<b, a>> : a \in LevelAnnots, b \in MessageAnnots}

ApplyAnnot(a, func) ==
    IF a.kind = "level_log" THEN level_log(a.level, func) ELSE message_log(a.message, func)

RECURSIVE ApplyStack(_, _)
ApplyStack(annots, func) ==
    IF annots = <<>> THEN func
    ELSE ApplyStack(Tail(annots), ApplyAnnot(Head(annots), func))

NoOutcome == [kind |-> "none", val |-> ""]
NoCall == [id |-> "none", self |-> "", args |-> <<>>, kwargs |-> <<>>, beh |-> NoOutcome]

InitView0 ==
    /\ users = {}
    /\ threads = <<>>

InitDec0 ==
    /\ funcs = [id \in FuncIds |-> Def("handler")]
    /\ decor = [id \in FuncIds |-> <<>>]
    /\ wrapped = {}
    /\ pc = "idle"
    /\ cur = NoCall
    /\ hist = <<>>
    /\ result = "None"
    /\ outcome = NoOutcome
    /\ prev = <<>>

Init == InitDec0 /\ InitView0

\* the def statement of a callable with its decorator stack, start_end_log outermost
Decorate(id, annots) ==
    /\ id \notin wrapped
    /\ pc = "idle"
    /\ funcs' = [funcs EXCEPT ![id] = ApplyStack(annots, funcs[id])]
    /\ decor' = [decor EXCEPT ![id] = annots]
    /\ wrapped' = wrapped \cup {id}
    /\ UNCHANGED <<pc, cur, hist, result, outcome, prev>>

Summary == [call |-> cur, hist |-> hist, outcome |-> outcome]

\* a caller invokes the wrapped form
Invoke(id, self, args, kwargs, beh) ==
    /\ pc = "idle"
    /\ id \in wrapped
    /\ prev' = IF cur.id = "none" THEN <<>> ELSE <<Summary>>
    /\ cur' = [id |-> id, self |-> self, args |-> args, kwargs |-> kwargs, beh |-> beh]
    /\ hist' = <<>>
    /\ result' = "None"
    /\ outcome' = NoOutcome
    /\ pc' = "start"
    /\ UNCHANGED <<funcs, decor, wrapped>>

\* inner, lines 5-8
InnerStart ==
    /\ pc = "start"
    /\ hist' = Append(hist, PrintEv(start_text(funcs[cur.id], cur.args, cur.kwargs)))
    /\ pc' = "call"
    /\ UNCHANGED <<funcs, decor, wrapped, cur, result, outcome, prev>>

\* inner, line 9: the call
InnerCall ==
    /\ pc = "call"
    /\ hist' = Append(hist, call_event(cur.self, cur.args, cur.kwargs))
    /\ pc' = "running"
    /\ UNCHANGED <<funcs, decor, wrapped, cur, result, outcome, prev>>

\* inner, line 9: func returns and result is bound
FuncReturn ==
    /\ pc = "running"
    /\ cur.beh.kind = "return"
    /\ result' = cur.beh.val
    /\ hist' = Append(hist, Ev("ret", <<>>, "", <<>>, <<>>, cur.beh.val))
    /\ pc' = "end"
    /\ UNCHANGED <<funcs, decor, wrapped, cur, outcome, prev>>

\* inner, line 9: func raises and the exception leaves inner
FuncRaise ==
    /\ pc = "running"
    /\ cur.beh.kind = "raise"
    /\ hist' = hist \o raise_events(funcs[cur.id], cur.beh.val)
    /\ outcome' = [kind |-> "raise", val |-> cur.beh.val]
    /\ pc' = "idle"
    /\ UNCHANGED <<funcs, decor, wrapped, cur, result, prev>>

\* inner, line 10
InnerEnd ==
    /\ pc = "end"
    /\ hist' = Append(hist, PrintEv(end_text(funcs[cur.id], result)))
    /\ pc' = "return"
    /\ UNCHANGED <<funcs, decor, wrapped, cur, result, outcome, prev>>

\* inner, line 11
InnerReturn ==
    /\ pc = "return"
    /\ outcome' = [kind |-> "return", val |-> inner_return(result)]
    /\ pc' = "idle"
    /\ UNCHANGED <<funcs, decor, wrapped, cur, hist, result, prev>>

Next ==
    \/ \E id \in FuncIds, annots \in AnnotStacks :
          Decorate(id, annots) /\ UNCHANGED viewvars
    \/ \E id \in FuncIds, self \in Receivers, args \in ArgTuples,
          kwargs \in KwargDicts, beh \in Behaviours :
          Invoke(id, self, args, kwargs, beh) /\ UNCHANGED viewvars
    \/ InnerStart /\ UNCHANGED viewvars
    \/ InnerCall /\ UNCHANGED viewvars
    \/ FuncReturn /\ UNCHANGED viewvars
    \/ FuncRaise /\ UNCHANGED viewvars
    \/ InnerEnd /\ UNCHANGED viewvars
    \/ InnerReturn /\ UNCHANGED viewvars

Spec == Init /\ [][Next]_vars

----------------------------------------------------------------------------
(* Reading printed text *)

IsPrint(e) == e.ev = "print"
Prints(h) == SelectSeq(h, IsPrint)

\* number of space characters a line starts with (after the blank line that the
\* start print puts first): the length of the run of " " tokens from there
Indent(text) ==
    LET from == IF text # <<>> /\ text[1] = "\n" THEN 2 ELSE 1
    IN Cardinality({k \in from..Len(text) : \A m \in from..k : text[m] = " "})

HasToken(text, tok) == \E i \in 1..Len(text) : text[i] = tok
IsStartLine(text) == HasToken(text, "+++[")
IsEndLine(text) == HasToken(text, "---[")

OccursAt(text, pat, i) ==
    /\ i + Len(pat) - 1 <= Len(text)
    /\ SubSeq(text, i, i + Len(pat) - 1) = pat

\* the text holds name, then pat1, then pat2, without overlap
InOrder(text, name, pat1, pat2) ==
    \E i \in 1..Len(text) :
        /\ text[i] = name
        /\ \E j \in (i + 1)..Len(text) :
              /\ OccursAt(text, pat1, j)
              /\ \E k \in (j + Len(pat1))..Len(text) : OccursAt(text, pat2, k)

EvIdx(h, ev) == {i \in 1..Len(h) : h[i].ev = ev}
Called == cur.id # "none"
Completed == Called /\ pc = "idle"

----------------------------------------------------------------------------
(* Claims about start_end_log, level_log and message_log *)

\* C1: the start line (name, then the positional tuple, then the keyword mapping)
\* is printed before the wrapped callable is entered; the end line (name and the
\* returned value) is printed after it has returned and before the wrapper
\* returns; a call that completes normally prints exactly these two lines.
C1_StartThenEnd ==
    /\ \A j \in EvIdx(hist, "call") :
          /\ j > 1
          /\ IsPrint(hist[1]) /\ IsStartLine(hist[1].text)
          /\ InOrder(hist[1].text, funcs[cur.id].name,
                     repr_tuple(cur.args), repr_dict(cur.kwargs))
    /\ \A j \in EvIdx(hist, "print") :
          IsEndLine(hist[j].text) =>
              /\ \E i \in EvIdx(hist, "ret") : i < j
              /\ InOrder(hist[j].text, "---[", <<funcs[cur.id].name>>, <<cur.beh.val>>)
    /\ (Completed /\ outcome.kind = "return") =>
          /\ Len(Prints(hist)) = 2
          /\ IsStartLine(Prints(hist)[1].text) /\ ~IsEndLine(Prints(hist)[1].text)
          /\ IsEndLine(Prints(hist)[2].text) /\ ~IsStartLine(Prints(hist)[2].text)

C1_Witness ==
    /\ Completed /\ outcome.kind = "return"
    /\ cur.args # <<>> /\ cur.kwargs # <<>>
    /\ Len(Prints(hist)) = 2

\* C2: when the wrapped callable raises, the start line has been printed, no end
\* line is printed, the caller gets the same exception, and a repeated call with
\* the same inputs gives the same lines and the same exception.
C2_RaisePropagates ==
    (Completed /\ cur.beh.kind = "raise") =>
        /\ \E j \in EvIdx(hist, "print") : IsStartLine(hist[j].text)
        /\ \A j \in EvIdx(hist, "print") : ~IsEndLine(hist[j].text)
        /\ outcome = [kind |-> "raise", val |-> cur.beh.val]
        /\ (prev # <<>> /\ prev[1].call = cur) =>
              (prev[1].outcome = outcome /\ Prints(prev[1].hist) = Prints(hist))

C2_Witness ==
    /\ Completed /\ outcome.kind = "raise"
    /\ prev # <<>> /\ prev[1].call = cur

\* C3: the wrapper enters the wrapped callable exactly once, with the caller's
\* receiver, positional and keyword arguments, and gives the caller what the
\* callable gave: the returned value itself, or the exception.
C3_Transparent ==
    /\ \A j \in EvIdx(hist, "call") :
          hist[j] = Ev("call", <<>>, cur.self, cur.args, cur.kwargs, "")
    /\ Cardinality(EvIdx(hist, "call")) <= 1
    /\ Completed =>
          /\ Cardinality(EvIdx(hist, "call")) = 1
          /\ outcome = cur.beh

C3_Witness ==
    /\ Completed /\ outcome.kind = "return" /\ outcome.val = "r"
    /\ cur.args # <<>> /\ cur.kwargs # <<>>
    /\ Cardinality(EvIdx(hist, "call")) = 1

LevelApplied(annots) == {annots[i].level : i \in {j \in 1..Len(annots) : annots[j].kind = "level_log"}}
MessageApplied(annots) == {annots[i].message : i \in {j \in 1..Len(annots) : annots[j].kind = "message_log"}}

\* C4: with level_log(n) applied under start_end_log every printed line of a call
\* starts with exactly 2n spaces; with no level attached the call does not fail
\* and every line starts with no space.
C4_Indentation ==
    Called =>
        /\ \A n \in LevelApplied(decor[cur.id]) :
              \A j \in EvIdx(hist, "print") : Indent(hist[j].text) = 2 * n
        /\ LevelApplied(decor[cur.id]) = {} =>
              /\ \A j \in EvIdx(hist, "print") : Indent(hist[j].text) = 0
              /\ Completed => outcome = cur.beh

C4_Witness ==
    /\ Completed /\ outcome.kind = "return"
    /\ \E n \in LevelApplied(decor[cur.id]) : n >= 1
    /\ Len(Prints(hist)) = 2

Mirror(x, y) == Len(x) = 2 /\ y = <<x[2], x[1]>>
SameInputs(c, d) ==
    /\ c.self = d.self /\ c.args = d.args /\ c.kwargs = d.kwargs /\ c.beh = d.beh

\* C5: level_log(n) then message_log(s), or message_log(s) then level_log(n),
\* leave the same function object (same name, both attributes kept), and the
\* wrapped calls of the two print the same lines for the same inputs.
C5_AnnotatorsCommute ==
    /\ \A a, b \in wrapped :
          Mirror(decor[a], decor[b]) =>
              /\ funcs[a] = funcs[b]
              /\ funcs[a].name = Def("handler").name
              /\ {getattr(funcs[a], "log_level", -1)} = LevelApplied(decor[a])
              /\ {getattr(funcs[a], "log_message", "")} = MessageApplied(decor[a])
    /\ (/\ Completed /\ prev # <<>>
        /\ Mirror(decor[cur.id], decor[prev[1].call.id])
        /\ SameInputs(cur, prev[1].call)) =>
          Prints(hist) = Prints(prev[1].hist)

C5_Witness ==
    /\ Completed /\ outcome.kind = "return" /\ prev # <<>>
    /\ Mirror(decor[cur.id], decor[prev[1].call.id])
    /\ SameInputs(cur, prev[1].call)
    /\ Len(Prints(hist)) = 2

----------------------------------------------------------------------------
(* account/views.py and account/urls.py *)

\* the traced hooks of CustomGenericAPIView with their decorator stacks
ViewFunc(name) ==
    CASE name = "list" -> level_log(2, message_log("LMM", Def("list")))
      [] name = "retrieve" -> level_log(2, message_log("LMM", Def("retrieve")))
      [] name = "dispatch" -> Def("dispatch")
      [] name = "initialize_request" -> level_log(1, Def("initialize_request"))
      [] name = "get_parser_context" -> level_log(2, Def("get_parser_context"))
      [] name = "initial" -> level_log(1, Def("initial"))
      [] name = "perform_authentication" -> level_log(2, Def("perform_authentication"))
      [] name = "check_permissions" -> level_log(2, Def("check_permissions"))
      [] name = "get_permissions" -> level_log(3, Def("get_permissions"))
      [] name = "check_throttles" -> level_log(2, Def("check_throttles"))
      [] name = "get_throttles" -> level_log(3, Def("get_throttles"))
      [] name = "finalize_response" -> level_log(1, Def("finalize_response"))
      [] name = "get" -> level_log(1, Def("get"))
      [] name = "get_queryset" -> level_log(1, Def("get_queryset"))
      [] name = "get_serializer_class" -> level_log(1, Def("get_serializer_class"))
      [] name = "get_object" -> level_log(1, Def("get_object"))

\* urlpatterns: 'APIView/' passes no key, 'APIView/<int:key>/' passes int(digits) >= 0;
\* key is <<>> for no key and <<k>> for key k. The keys requested are 0, every id up
\* to the largest stored one, and the next id, which is not stored
Requests(stored) ==
    {[path |-> "APIView/", key |-> <<>>]}
        \cup {[path |-> "APIView/<int:key>/", key |-> <<k>>] :
                 k \in 0..(Cardinality({i \in 1..MaxKey : \E u \in stored : u >= i}) + 1)}
NoReq == [path |-> "", key |-> <<>>]

\* the keyword arguments the route hands to the view
RouteKwargs(r) == IF r.key = <<>> THEN <<>> ELSE << <<"'key'", ToString(r.key[1])>> >>

\* bool(key) for key None or an int
truth(key) == key # <<>> /\ key[1] # 0

Call(func, args, kwargs) == [func |-> func, args |-> args, kwargs |-> kwargs]

get_calls_retrieve(request, key) == <<Call("retrieve", <<request>>, <<>>)>>

\* CustomGenericAPIView.get: the traced call its body makes
get_calls(request, key) ==
    IF truth(key) THEN <<Call("retrieve", <<request>>, <<>>)>>
    ELSE <<Call("list", <<request>>, <<>>)>>

\* the traced hooks the rest_framework base implementation of a hook calls, in order
\* (every override in views.py only delegates to super())
super_calls(f, r) ==
    CASE f.func = "dispatch" ->
            <<Call("initialize_request", f.args, f.kwargs),
              Call("initial", <<"<Request>">>, f.kwargs),
              Call("get", <<"<Request>">>, f.kwargs),
              Call("finalize_response", <<"<Request>", f.val>>, f.kwargs)>>
      [] f.func = "initialize_request" -> <<Call("get_parser_context", f.args, <<>>)>>
      [] f.func = "initial" ->
            <<Call("perform_authentication", f.args, <<>>),
              Call("check_permissions", f.args, <<>>),
              Call("check_throttles", f.args, <<>>)>>
      [] f.func = "check_permissions" -> <<Call("get_permissions", <<>>, <<>>)>>
      [] f.func = "check_throttles" -> <<Call("get_throttles", <<>>, <<>>)>>
      [] f.func = "list" ->
            <<Call("get_queryset", <<>>, <<>>), Call("get_serializer_class", <<>>, <<>>)>>
      [] f.func = "retrieve" ->
            <<Call("get_object", <<>>, <<>>), Call("get_serializer_class", <<>>, <<>>)>>
      [] f.func = "get_object" -> <<Call("get_queryset", <<>>, <<>>)>>
      [] OTHER -> <<>>

Callees(f, r) == IF f.func = "get" THEN get_calls(f.args[1], r.key) ELSE super_calls(f, r)

\* what the rest_framework base implementation of a hook returns
super_result(f) ==
    CASE f.func = "dispatch" -> f.val
      [] f.func = "finalize_response" -> f.args[2]
      [] f.func = "initialize_request" -> "<Request>"
      [] f.func = "get_parser_context" -> "<context>"
      [] f.func = "get_permissions" -> "[<AllowAny>]"
      [] f.func = "get_throttles" -> "[]"
      [] f.func = "list" -> "<Response 200>"
      [] f.func = "retrieve" -> "<Response 200>"
      [] f.func = "get_queryset" -> "<QuerySet>"
      [] f.func = "get_serializer_class" -> "<class UserSerializer>"
      [] f.func = "get_object" -> "<User>"
      [] OTHER -> "None"

\* get returns what list or retrieve returned; the other hooks return super()'s value
Result(f) == IF f.func = "get" THEN f.val ELSE super_result(f)

\* GenericAPIView.get_object: the lookup by lookup_url_kwarg = 'key' fails
super_raises(f, r, stored) ==
    f.func = "get_object" /\ (r.key = <<>> \/ r.key[1] \notin stored)
super_exc(f, r) == IF r.key = <<>> THEN "AssertionError" ELSE "Http404"

\* APIView.dispatch turns an Http404 of initial or the handler into a response
super_catches(f, exc) == f.func = "dispatch" /\ f.i > 2 /\ exc = "Http404"

Frame(c, cid) ==
    [func |-> c.func, args |-> c.args, kwargs |-> c.kwargs, i |-> 1, cid |-> cid, val |-> "None"]

\* a thread that has not taken its request yet
NewThread == [req |-> NoReq, stack |-> <<>>, trace |-> <<>>, ncalls |-> 0]

Top(t) == t.stack[Len(t.stack)]
Started(t) == t.req # NoReq
Done(t) == Started(t) /\ t.stack = <<>>

\* thread t becomes t2; a step that prints is one write to standard output, so
\* the order of the steps is the order of the lines there
Step(t, t2) ==
    /\ threads' = (threads (-) SetToBag({t})) (+) SetToBag({t2})
    /\ UNCHANGED users

\* a traced hook is called: inner, lines 5-9
EnterEv(t, c) ==
    Tag(PrintEv(start_text(ViewFunc(c.func), c.args, c.kwargs)), t.ncalls + 1)
Enter(t, c, stk) ==
    [t EXCEPT !.stack = Append(stk, Frame(c, t.ncalls + 1)),
              !.trace = Append(@, EnterEv(t, c)),
              !.ncalls = @ + 1]

\* a request arrives on its own thread and the view calls self.dispatch
Accept(t, r) ==
    /\ BagIn(t, threads)
    /\ ~Started(t)
    /\ LET c == Call("dispatch", <<"<WSGIRequest>">>, RouteKwargs(r))
       IN Step(t, Enter([t EXCEPT !.req = r], c, <<>>))

\* the running hook calls its next traced hook
CallNext(t) ==
    /\ BagIn(t, threads)
    /\ t.stack # <<>>
    /\ LET top == Top(t)
           cs == Callees(top, t.req)
       IN /\ top.i <= Len(cs)
          /\ Step(t,
                  Enter(t, cs[top.i],
                        [t.stack EXCEPT ![Len(t.stack)] = [top EXCEPT !.i = top.i + 1]]))

\* the running hook returns: inner, lines 9-11
ReturnTop(t) ==
    /\ BagIn(t, threads)
    /\ t.stack # <<>>
    /\ LET top == Top(t)
           res == Result(top)
           e == Tag(PrintEv(end_text(ViewFunc(top.func), res)), top.cid)
           rest == SubSeq(t.stack, 1, Len(t.stack) - 1)
       IN /\ top.i > Len(Callees(top, t.req))
          /\ ~super_raises(top, t.req, users)
          /\ Step(t,
                  [t EXCEPT !.trace = Append(@, e),
                            !.stack = IF rest = <<>> THEN rest
                                      ELSE [rest EXCEPT ![Len(rest)] =
                                               [@ EXCEPT !.val = inner_return(res)]]])

\* the exception leaves every traced call up to the one that catches it
RECURSIVE Unwind(_, _, _)
Unwind(stk, exc, evs) ==
    IF stk = <<>> THEN [stack |-> stk, evs |-> evs]
    ELSE LET top == stk[Len(stk)]
         IN IF super_catches(top, exc)
            THEN \* dispatch goes on with its last call, finalize_response
                 [stack |-> [stk EXCEPT ![Len(stk)] =
                                [top EXCEPT !.val = "<Response 404>",
                                            !.i = Len(super_calls(top, NoReq))]],
                  evs |-> evs]
            ELSE Unwind(SubSeq(stk, 1, Len(stk) - 1), exc,
                        evs \o [j \in 1..Len(raise_events(ViewFunc(top.func), exc)) |->
                                   Tag(raise_events(ViewFunc(top.func), exc)[j], top.cid)])

\* the running hook raises: inner, line 9, in every traced call on the way up
RaiseTop(t) ==
    /\ BagIn(t, threads)
    /\ t.stack # <<>>
    /\ LET top == Top(t)
           u == Unwind(t.stack, super_exc(top, t.req), <<>>)
       IN /\ top.i > Len(Callees(top, t.req))
          /\ super_raises(top, t.req, users)
          /\ Step(t, [t EXCEPT !.stack = u.stack, !.trace = @ \o u.evs])

\* one request, any stored records (ids start at 1)
InitView ==
    /\ InitDec0
    /\ users \in SUBSET (1..MaxKey)
    /\ threads = SetToBag({NewThread})

\* NumWorkers requests handled at the same time, no stored record
InitConc ==
    /\ InitDec0
    /\ users = {}
    /\ threads = [t \in {NewThread} |-> NumWorkers]

NextView ==
    \/ \E t \in BagToSet(threads), r \in Requests(users) : Accept(t, r) /\ UNCHANGED decvars
    \/ \E t \in BagToSet(threads) : CallNext(t) /\ UNCHANGED decvars
    \/ \E t \in BagToSet(threads) : ReturnTop(t) /\ UNCHANGED decvars
    \/ \E t \in BagToSet(threads) : RaiseTop(t) /\ UNCHANGED decvars

SpecView == InitView /\ [][NextView]_vars
SpecConc == InitConc /\ [][NextView]_vars

----------------------------------------------------------------------------
(* Claims about the traced view *)

\* the callable name a start or end line shows
NameOf(text) == text[1 + CHOOSE k \in 1..Len(text) : text[k] \in {"+++[", "---["}]
IsStartOf(e, name) == IsPrint(e) /\ IsStartLine(e.text) /\ NameOf(e.text) = name
IsEndOf(e, name) == IsPrint(e) /\ IsEndLine(e.text) /\ NameOf(e.text) = name
StartIdx(tr, name) == {i \in 1..Len(tr) : IsStartOf(tr[i], name)}
EndIdx(tr, name) == {i \in 1..Len(tr) : IsEndOf(tr[i], name)}
Running == BagToSet(threads)
IsList(t) == t.req.path = "APIView/"
IsDetail(t) == t.req.path = "APIView/<int:key>/"

\* C6: a GET of the list endpoint prints a start line for list and no line for
\* retrieve, and the dispatch lines (level 0) enclose the list lines (level 2).
C6_ListPath ==
    \A t \in Running : IsList(t) =>
        /\ StartIdx(t.trace, "retrieve") \cup EndIdx(t.trace, "retrieve") = {}
        /\ \A j \in StartIdx(t.trace, "list") :
              /\ Indent(t.trace[j].text) = 4
              /\ \E i \in StartIdx(t.trace, "dispatch") : i < j /\ Indent(t.trace[i].text) = 0
        /\ \A j \in EndIdx(t.trace, "dispatch") :
              /\ Indent(t.trace[j].text) = 0
              /\ \E i \in EndIdx(t.trace, "list") : i < j /\ Indent(t.trace[i].text) = 4
        /\ Done(t) =>
              /\ Cardinality(StartIdx(t.trace, "list")) = 1
              /\ Cardinality(EndIdx(t.trace, "dispatch")) = 1

C6_Witness ==
    \E t \in Running :
        /\ IsList(t) /\ Done(t)
        /\ EndIdx(t.trace, "list") # {} /\ EndIdx(t.trace, "dispatch") # {}

\* C7: a GET of the detail endpoint, whatever integer key the route passes,
\* calls retrieve and never list.
C7_DetailCallsRetrieve ==
    \A t \in Running : IsDetail(t) =>
        /\ StartIdx(t.trace, "list") = {}
        /\ \A j \in StartIdx(t.trace, "get") :
              j < Len(t.trace) => IsStartOf(t.trace[j + 1], "retrieve")

\* C8: a GET of the detail endpoint with a key that matches no stored record
\* prints a start line for retrieve, then one for get_object, the not-found
\* error leaves get_object, and no end line for get_object is printed.
C8_NotFound ==
    \A t \in Running : (IsDetail(t) /\ t.req.key[1] \notin users) =>
        /\ EndIdx(t.trace, "get_object") = {}
        /\ Done(t) =>
              /\ \E i \in StartIdx(t.trace, "retrieve"), j \in StartIdx(t.trace, "get_object") :
                    /\ i < j
                    /\ \E k \in (j + 1)..Len(t.trace) :
                          /\ t.trace[k].ev = "raise" /\ t.trace[k].val = "Http404"
                          /\ t.trace[k].cid = t.trace[j].cid

\* the start line of the traced call cid of thread t
StartLineOf(t, cid) ==
    t.trace[CHOOSE i \in 1..Len(t.trace) :
                t.trace[i].cid = cid /\ IsPrint(t.trace[i]) /\ IsStartLine(t.trace[i].text)].text

\* C9: a traced hook called while another traced hook of the same request is
\* running is indented strictly deeper than the hook that encloses it.
C9_DeeperInside ==
    \A t \in Running :
        \A p \in 1..(Len(t.stack) - 1) :
            Indent(StartLineOf(t, t.stack[p + 1].cid)) > Indent(StartLineOf(t, t.stack[p].cid))

\* the positions of the start lines in the events of one request
Starts(tr) == {i \in 1..Len(tr) : IsPrint(tr[i]) /\ IsStartLine(tr[i].text)}

\* every other event (an end line, or a call left by an exception) closes the
\* innermost call still open: the start line of its call comes earlier and the
\* events between the two are as many start lines as closing events; an end
\* line shows the name and the indentation of that start line
WellNested(tr) ==
    LET S == Starts(tr)
    IN \A j \in (1..Len(tr)) \ S :
          \E i \in S :
              /\ i < j
              /\ tr[i].cid = tr[j].cid
              /\ 2 * Cardinality(S \cap ((i + 1)..(j - 1))) = j - i - 1
              /\ IsPrint(tr[j]) =>
                    /\ IsEndLine(tr[j].text)
                    /\ NameOf(tr[j].text) = NameOf(tr[i].text)
                    /\ Indent(tr[j].text) = Indent(tr[i].text)

\* the calls whose start line no later event closes
OpenCalls(tr) ==
    LET S == Starts(tr)
    IN {tr[i].cid : i \in {k \in S : \A j \in (k + 1)..Len(tr) : tr[j].cid # tr[k].cid}}

\* C10: with several requests in progress, the lines of each request alone are
\* well nested: an end line closes the innermost call of that request still
\* running (same call, name and indentation as its start line), never a call
\* without a start line, and a call that raised leaves its start line open
\* while the enclosing calls still pair up.
C10_WellNested ==
    \A t \in Running :
        /\ WellNested(t.trace)
        /\ OpenCalls(t.trace) = {t.stack[p].cid : p \in 1..Len(t.stack)}

C10_Witness ==
    \E t1, t2 \in Running :
        /\ t1 # t2
        /\ t1.stack # <<>> /\ t2.stack # <<>>
        /\ \E i, j \in 1..Len(t1.trace) :
              i < j /\ t1.trace[i].ev = "raise" /\ IsPrint(t1.trace[j]) /\ IsEndLine(t1.trace[j].text)
        /\ \E p \in 1..Len(t2.stack) : t2.stack[p].func = "get_object"

====
